---- MODULE Spec2Model ----
(***************************************************************************)
(* Model of src/app.py, the Streamlit OCR form of ZeroxOCR.                *)
(*                                                                         *)
(* Text is a sequence of one-character strings.  Hangul syllables of the   *)
(* source's literals are written romanised, one string per syllable        *)
(* ("pe","i","ji" for the heading word); "\n" is the newline character and *)
(* "sup2" stands for a non-ASCII digit such as SUPERSCRIPT TWO, for which  *)
(* str.isdigit() is true and int() raises ValueError.                      *)
(***************************************************************************)
EXTENDS Integers, Sequences, FiniteSets, TLC

\* ---- bounds of the model ----
MaxPages == 2

\* ---- optional values (Python None) ----
None == [some |-> FALSE]
Some(v) == [some |-> TRUE, val |-> v]

SeqsUpTo(S, n) == UNION {[1..k -> S] : k \in 0..n}
Range(s) == {s[i] : i \in 1..Len(s)}

\* ---- Python built-ins used by the script ----
DecimalDigits == {"0", "1", "2", "3", "4", "5", "6", "7", "8", "9"}
OtherDigits == {"sup2"}
Whitespace == {" ", "\n"}

DigitValue(c) ==
    CASE c = "0" -> 0 [] c = "1" -> 1 [] c = "2" -> 2 [] c = "3" -> 3
      [] c = "4" -> 4 [] c = "5" -> 5 [] c = "6" -> 6 [] c = "7" -> 7
      [] c = "8" -> 8 [] c = "9" -> 9

DigitChar(d) ==
    CASE d = 0 -> "0" [] d = 1 -> "1" [] d = 2 -> "2" [] d = 3 -> "3"
      [] d = 4 -> "4" [] d = 5 -> "5" [] d = 6 -> "6" [] d = 7 -> "7"
      [] d = 8 -> "8" [] d = 9 -> "9"

\* str.strip(): drop leading and trailing whitespace
RECURSIVE lstrip(_)
lstrip(s) == IF s # <<>> /\ Head(s) \in Whitespace THEN lstrip(Tail(s)) ELSE s

RECURSIVE rstrip(_)
rstrip(s) ==
    IF s # <<>> /\ s[Len(s)] \in Whitespace
    THEN rstrip(SubSeq(s, 1, Len(s) - 1))
    ELSE s

strip(s) == rstrip(lstrip(s))

\* str.split(","): the segments between the commas, empty ones included
RECURSIVE split(_)
split(s) ==
    IF "," \notin Range(s)
    THEN <<s>>
    ELSE LET i == CHOOSE k \in 1..Len(s) :
                      s[k] = "," /\ \A j \in 1..(k - 1) : s[j] # ","
         IN  <<SubSeq(s, 1, i - 1)>> \o split(SubSeq(s, i + 1, Len(s)))

\* str.isdigit(): non-empty and every character a digit character
isdigit(s) == s # <<>> /\ \A i \in 1..Len(s) : s[i] \in DecimalDigits \cup OtherDigits

\* int(s) of a string that passed isdigit(): ValueError on a non-decimal digit
int_raises(s) == \E i \in 1..Len(s) : s[i] \notin DecimalDigits

RECURSIVE int(_)
int(s) ==
    IF s = <<>> THEN 0
    ELSE 10 * int(SubSeq(s, 1, Len(s) - 1)) + DigitValue(s[Len(s)])

\* str(n) of a non-negative integer
RECURSIVE str(_)
str(n) == IF n < 10 THEN <<DigitChar(n)>> ELSE str(n \div 10) \o <<DigitChar(n % 10)>>

\* sep.join(parts)
RECURSIVE join(_, _)
join(sep, parts) ==
    IF parts = <<>> THEN <<>>
    ELSE IF Len(parts) = 1 THEN parts[1]
    ELSE parts[1] \o sep \o join(sep, Tail(parts))

\* truthiness of an optional list: None and [] are falsy
Falsy(opt) == ~opt.some \/ opt.val = <<>>


\* pathlib.PurePath(name).stem of a base name: the part before the last dot,
\* unless that dot is the first or the last character
rfind_dot(name) ==
    IF "." \in Range(name)
    THEN CHOOSE k \in 1..Len(name) :
             name[k] = "." /\ \A j \in (k + 1)..Len(name) : name[j] # "."
    ELSE 0

\* a stem cut at the first dot instead of the last
stem_at_first_dot(name) ==
    LET dots == {k \in 1..Len(name) : name[k] = "."}
        i == IF dots = {} THEN 0 ELSE CHOOSE k \in dots : \A j \in dots : k <= j
    IN  IF 1 < i /\ i < Len(name) THEN SubSeq(name, 1, i - 1) ELSE name

stem(name) ==
    LET i == rfind_dot(name)
    IN  IF 1 < i /\ i < Len(name) THEN SubSeq(name, 1, i - 1) ELSE name

\* ---- literals of the script ----
HeadingPrefix == <<"#", "#", " ", "pe", "i", "ji", " ">>
BlankLine == <<"\n", "\n">>
NoTextLiteral ==
    <<"chu", "chul", "doen", " ", "tek", "seu", "teu", "ga", " ",
      "eops", "seup", "ni", "da", ".">>
ExtractedMd == <<"_", "e", "x", "t", "r", "a", "c", "t", "e", "d", ".", "m", "d">>
ExtractedTxt == <<"_", "e", "x", "t", "r", "a", "c", "t", "e", "d", ".", "t", "x", "t">>
AllPages == "all"
SpecificPages == "specific"

\* ---- inputs ----
\* names of uploaded files (base names: "r.p", "n", ".p", "a.b.p"); the
\* uploader accepts only names ending in one of its extensions, so none ends
\* in a dot
FileNames ==
    { <<"r", ".", "p">>, <<"n">>, <<".", "p">>, <<"a", ".", "b", ".", "p">> }
FileTypes == {"application/pdf", "image/png"}
Files == [name : FileNames, type : FileTypes]

\* texts typed into the page-number field
PageInputs ==
    { <<>>,
      <<"1", ",", "2">>,
      <<" ", "2", " ", ",", "1">>,
      <<"1", "0">>,
      <<"0">>,
      <<"1", ",", "a">>,
      <<"a", ",", "b", ",">>,
      <<" ">>,
      <<",">>,
      <<"sup2">>,
      <<"1", ",", "sup2">> }

\* what the provider can return as a ZeroxOutput
PageNumbers == {1, 2}
Contents == {<<>>, <<"a">>, HeadingPrefix}
Pages == [page : PageNumbers, content : Contents]
OutputFileNames == { <<"t">>, <<"t", ".", "p">> }
ZeroxOutputs == [pages : SeqsUpTo(Pages, MaxPages), file_name : OutputFileNames]

\* ---- state ----
VARIABLES
    uploaded_file,      \* Option(file): the file_uploader widget
    page_option_radio,  \* the radio widget's value
    page_input_text,    \* the text_input widget's value
    ocr_result,         \* st.session_state.ocr_result
    extracted_text,     \* st.session_state.extracted_text
    processing_done,    \* st.session_state.processing_done
    pc,                 \* "idle", or "running" while zerox is awaited
    s_pages,            \* the select_pages argument of the call in flight
    calls,              \* zerox invocations made by the current script run
    messages,           \* st.warning/st.error/st.success shown by the current run
    event,              \* what the last script run was triggered by / ended with
    had_result          \* processing_done as it was when start was last clicked

vars == <<uploaded_file, page_option_radio, page_input_text, ocr_result,
          extracted_text, processing_done, pc, s_pages, calls, messages,
          event, had_result>>

session == <<ocr_result, extracted_text, processing_done>>
widgets == <<uploaded_file, page_option_radio, page_input_text>>

is_pdf(file) == file.some /\ file.val.type = "application/pdf"

\* page_option of the script: None unless a PDF is uploaded
page_option(file, radio) == IF is_pdf(file) THEN Some(radio) ELSE None

specific_chosen(file, radio) == page_option(file, radio) = Some(SpecificPages)

\* the list comprehension of line 61
RECURSIVE parse_segments(_)
parse_segments(segs) ==
    IF segs = <<>> THEN <<>>
    ELSE (IF isdigit(strip(Head(segs))) THEN <<int(strip(Head(segs)))>> ELSE <<>>)
         \o parse_segments(Tail(segs))

comprehension_raises(text) ==
    \E i \in 1..Len(split(text)) :
        LET p == strip(split(text)[i]) IN isdigit(p) /\ int_raises(p)

\* the parse without the test that the text is non-empty
select_pages_of_any_text(file, radio, text) ==
    IF specific_chosen(file, radio) /\ ~comprehension_raises(text)
    THEN Some(parse_segments(split(text)))
    ELSE None

\* select_pages as the top of the script computes it on every run
select_pages(file, radio, text) ==
    IF specific_chosen(file, radio) /\ text # <<>> /\ ~comprehension_raises(text)
    THEN Some(parse_segments(split(text)))
    ELSE None

\* the messages the page-selection widgets show on every run
parse_messages(file, radio, text) ==
    IF specific_chosen(file, radio) /\ text # <<>>
    THEN IF comprehension_raises(text) THEN {"error_digits_and_commas"}
         ELSE IF parse_segments(split(text)) = <<>> THEN {"warning_no_valid_pages"}
         ELSE {}
    ELSE {}

\* the validity check of the start handler
start_falls_back(file, radio, text) ==
    specific_chosen(file, radio) /\ Falsy(select_pages(file, radio, text))

\* a start handler that passes the parsed list on as it is
start_select_pages_as_parsed(file, radio, text) == select_pages(file, radio, text)

start_select_pages(file, radio, text) ==
    IF start_falls_back(file, radio, text) THEN None ELSE select_pages(file, radio, text)

start_messages(file, radio, text) ==
    IF start_falls_back(file, radio, text) THEN {"warning_all_pages"} ELSE {}

\* all_text_parts of the result handling, then "\n\n".join
RECURSIVE page_blocks(_)
page_blocks(pages) ==
    IF pages = <<>> THEN <<>>
    ELSE <<HeadingPrefix \o str(Head(pages).page) \o BlankLine \o Head(pages).content>>
         \o page_blocks(Tail(pages))

\* pages ordered by page number before the blocks are made
RECURSIVE sorted_by_page(_)
sorted_by_page(pages) ==
    IF pages = <<>> THEN <<>>
    ELSE LET m == CHOOSE i \in 1..Len(pages) :
                      /\ \A j \in 1..Len(pages) : pages[i].page <= pages[j].page
                      /\ \A j \in 1..(i - 1) : pages[j].page > pages[i].page
         IN  <<pages[m]>>
             \o sorted_by_page(SubSeq(pages, 1, m - 1) \o SubSeq(pages, m + 1, Len(pages)))

all_text_parts_sorted(pages) ==
    IF Len(pages) > 1 THEN page_blocks(sorted_by_page(pages))
    ELSE IF pages # <<>> THEN <<pages[1].content>>
    ELSE <<NoTextLiteral>>

\* a heading for a single page too
all_text_parts_heading_always(pages) ==
    IF Len(pages) >= 1 THEN page_blocks(pages)
    ELSE <<NoTextLiteral>>

\* nothing appended for an empty result
all_text_parts_no_fallback(pages) ==
    IF Len(pages) > 1 THEN page_blocks(pages)
    ELSE IF pages # <<>> THEN <<pages[1].content>>
    ELSE <<>>

all_text_parts(pages) ==
    IF Len(pages) > 1 THEN page_blocks(pages)
    ELSE IF pages # <<>> THEN <<pages[1].content>>
    ELSE <<NoTextLiteral>>

assemble(pages) == join(BlankLine, all_text_parts(pages))

\* ---- the results section ----
displayed == processing_done /\ extracted_text # <<>>

original_filename_stem ==
    IF uploaded_file.some THEN stem(uploaded_file.val.name)
    ELSE stem(ocr_result.val.file_name)

download_filename == original_filename_stem \o ExtractedMd

download_button_shown == displayed /\ ocr_result.some

download_button ==
    IF download_button_shown
    THEN Some([file_name |-> download_filename, mime |-> "text/markdown",
               data |-> extracted_text])
    ELSE None

\* ---- initial state: lines 29-35, nothing uploaded ----
Init ==
    /\ uploaded_file = None
    /\ page_option_radio = AllPages
    /\ page_input_text = <<>>
    /\ ocr_result = None
    /\ extracted_text = <<>>
    /\ processing_done = FALSE
    /\ pc = "idle"
    /\ s_pages = None
    /\ calls = 0
    /\ messages = {}
    /\ event = "init"
    /\ had_result = FALSE

\* a script run that touches neither the session nor the provider
plain_rerun(name) ==
    /\ calls' = 0
    /\ s_pages' = None
    /\ pc' = "idle"
    /\ event' = name
    /\ had_result' = FALSE
    /\ messages' = parse_messages(uploaded_file', page_option_radio', page_input_text')

\* the user uploads, replaces or removes the file; the page widgets keep their
\* values only while they stay rendered (a PDF replaced by a PDF)
file_uploader(file) ==
    /\ pc = "idle"
    /\ file # uploaded_file
    /\ uploaded_file' = file
    /\ IF is_pdf(file) /\ is_pdf(uploaded_file)
       THEN UNCHANGED <<page_option_radio, page_input_text>>
       ELSE page_option_radio' = AllPages /\ page_input_text' = <<>>
    /\ UNCHANGED session
    /\ plain_rerun("upload")

\* the radio widget, rendered for a PDF only
page_option_radio_changed(option) ==
    /\ pc = "idle"
    /\ is_pdf(uploaded_file)
    /\ option # page_option_radio
    /\ page_option_radio' = option
    /\ page_input_text' = <<>>
    /\ UNCHANGED <<uploaded_file, session>>
    /\ plain_rerun("radio")

\* the text input, rendered when "specific pages" is chosen
page_input_text_changed(text) ==
    /\ pc = "idle"
    /\ specific_chosen(uploaded_file, page_option_radio)
    /\ text # page_input_text
    /\ page_input_text' = text
    /\ UNCHANGED <<uploaded_file, page_option_radio, session>>
    /\ plain_rerun("text")

\* a start handler that leaves the previous result in place
start_reset_missing == UNCHANGED <<ocr_result, extracted_text, processing_done>>

\* lines 68-72: the start handler first clears the previous result
start_reset ==
    /\ ocr_result' = None
    /\ extracted_text' = <<>>
    /\ processing_done' = FALSE

\* lines 68-99: start clicked; the run is left awaiting zerox
start_button ==
    /\ pc = "idle"
    /\ uploaded_file.some
    /\ start_reset
    /\ s_pages' = start_select_pages(uploaded_file, page_option_radio, page_input_text)
    /\ messages' = parse_messages(uploaded_file, page_option_radio, page_input_text)
                     \cup start_messages(uploaded_file, page_option_radio, page_input_text)
    /\ calls' = 1
    /\ pc' = "running"
    /\ event' = "start"
    /\ had_result' = processing_done
    /\ UNCHANGED widgets

\* a result stored without the processed flag
store_result_unflagged(result) ==
    /\ ocr_result' = Some(result)
    /\ extracted_text' = assemble(result.pages)
    /\ UNCHANGED processing_done

\* lines 118-132: a ZeroxOutput is stored, assembled and marked as processed
store_result(result) ==
    /\ ocr_result' = Some(result)
    /\ extracted_text' = assemble(result.pages)
    /\ processing_done' = TRUE

\* the await returns; the rest of the run handles the result
finish_run(name, shown) ==
    /\ pc = "running"
    /\ pc' = "idle"
    /\ event' = name
    /\ messages' = messages \cup shown
    /\ s_pages' = None
    /\ UNCHANGED <<widgets, calls, had_result>>

\* zerox returns a ZeroxOutput
zerox_returns_output(result) ==
    /\ finish_run("extracted", {"success"})
    /\ store_result(result)

\* zerox raises: lines 101-103 report it and return None, line 136 warns
zerox_raises ==
    /\ finish_run("failed", {"error_zerox", "warning_failed"})
    /\ UNCHANGED session

\* zerox returns None (line 134)
zerox_returns_none ==
    /\ finish_run("failed", {"warning_failed"})
    /\ UNCHANGED session

\* zerox returns something that is no ZeroxOutput (line 137)
zerox_returns_other ==
    /\ finish_run("failed", {"error_unexpected_type"})
    /\ UNCHANGED session

\* asyncio.run itself raises (line 140)
asyncio_run_raises ==
    /\ finish_run("failed", {"error_overall"})
    /\ UNCHANGED session

\* a handler that clears before it copies
copy_clear_button_clears_first(copied) ==
    /\ pc = "idle"
    /\ displayed
    /\ UNCHANGED widgets
    /\ ocr_result' = None
    /\ extracted_text' = <<>>
    /\ processing_done' = FALSE
    /\ calls' = 0
    /\ s_pages' = None
    /\ pc' = "idle"
    /\ event' = IF copied THEN "copied" ELSE "copy_failed"
    /\ had_result' = FALSE
    /\ messages' = parse_messages(uploaded_file, page_option_radio, page_input_text)
                     \cup (IF copied THEN {} ELSE {"error_clipboard"})

\* lines 162-175: copy, and on success clear and rerun; copied = pyperclip.copy
\* returned, ~copied = it raised
copy_clear_button(copied) ==
    /\ pc = "idle"
    /\ displayed
    /\ UNCHANGED widgets
    /\ IF copied
       THEN /\ ocr_result' = None
            /\ extracted_text' = <<>>
            /\ processing_done' = FALSE
            /\ plain_rerun("copied")
       ELSE /\ UNCHANGED session
            /\ calls' = 0
            /\ s_pages' = None
            /\ pc' = "idle"
            /\ event' = "copy_failed"
            /\ had_result' = FALSE
            /\ messages' = parse_messages(uploaded_file, page_option_radio, page_input_text)
                             \cup {"error_clipboard"}

\* lines 177-190: the download button is clicked; the run changes nothing
download_button_clicked ==
    /\ pc = "idle"
    /\ download_button_shown
    /\ event # "download"
    /\ UNCHANGED <<widgets, session>>
    /\ plain_rerun("download")

Next ==
    \/ \E file \in {None} \cup {Some(f) : f \in Files} : file_uploader(file)
    \/ \E option \in {AllPages, SpecificPages} : page_option_radio_changed(option)
    \/ \E text \in PageInputs : page_input_text_changed(text)
    \/ start_button
    \/ \E result \in ZeroxOutputs : zerox_returns_output(result)
    \/ zerox_raises
    \/ zerox_returns_none
    \/ zerox_returns_other
    \/ asyncio_run_raises
    \/ \E copied \in BOOLEAN : copy_clear_button(copied)
    \/ download_button_clicked

Spec == Init /\ [][Next]_vars

\* ==== properties ====

cleared == ocr_result = None /\ extracted_text = <<>> /\ ~processing_done

\* number of places at which pat occurs in text
occurrences(pat, text) ==
    Cardinality({i \in 1..(Len(text) - Len(pat) + 1) :
                    SubSeq(text, i, i + Len(pat) - 1) = pat})

occurs_at(piece, text, at) ==
    /\ at + Len(piece) - 1 <= Len(text)
    /\ SubSeq(text, at, at + Len(piece) - 1) = piece

RECURSIVE occurrences_in_contents(_)
occurrences_in_contents(pages) ==
    IF pages = <<>> THEN 0
    ELSE occurrences(HeadingPrefix, Head(pages).content)
         + occurrences_in_contents(Tail(pages))

\* length of one block: heading, page number, blank line, content
block_length(p) == Len(HeadingPrefix) + Len(str(p.page)) + Len(BlankLine) + Len(p.content)

\* where the block of page i starts when the blocks are laid out in the
\* order received, a blank line between two
RECURSIVE block_start(_, _)
block_start(pages, i) ==
    IF i = 1 THEN 1
    ELSE block_start(pages, i - 1) + block_length(pages[i - 1]) + Len(BlankLine)

multi_page == ocr_result.some /\ Len(ocr_result.val.pages) > 1

\* C1 as stated: a result of more than one page has exactly as many
\* occurrences of the heading prefix in the text as it has pages.
C1_HeadingCountEqualsPages ==
    multi_page =>
        occurrences(HeadingPrefix, extracted_text) = Len(ocr_result.val.pages)

\* C1 amended: for a result of more than one page the text is the blocks
\* (heading with the page's number, blank line, content) in the order received,
\* a blank line between two, and the heading prefix occurs once per page plus
\* once for each occurrence inside the pages' contents.
C1_BlocksInReceivedOrder ==
    multi_page =>
        LET pages == ocr_result.val.pages
            n == Len(pages)
        IN  /\ \A i \in 1..n :
                   LET at == block_start(pages, i)
                       number == str(pages[i].page)
                   IN  /\ occurs_at(HeadingPrefix, extracted_text, at)
                       /\ occurs_at(number, extracted_text, at + Len(HeadingPrefix))
                       /\ occurs_at(BlankLine, extracted_text,
                                    at + Len(HeadingPrefix) + Len(number))
                       /\ occurs_at(pages[i].content, extracted_text,
                                    at + Len(HeadingPrefix) + Len(number) + Len(BlankLine))
                       /\ i < n => occurs_at(BlankLine, extracted_text,
                                             at + block_length(pages[i]))
            /\ Len(extracted_text) = block_start(pages, n) + block_length(pages[n]) - 1
            /\ occurrences(HeadingPrefix, extracted_text)
                 = n + occurrences_in_contents(pages)

\* two pages received out of page order, one of them containing the prefix
C1_Witness ==
    /\ multi_page
    /\ ocr_result.val.pages[1].page > ocr_result.val.pages[2].page
    /\ ocr_result.val.pages[1].content = <<"a">>
    /\ ocr_result.val.pages[2].content = HeadingPrefix

\* C2: a result of exactly one page gives that page's content as the text,
\* without a heading, whatever the content is.
C2_SinglePageVerbatim ==
    (ocr_result.some /\ Len(ocr_result.val.pages) = 1) =>
        extracted_text = ocr_result.val.pages[1].content

C2_Witness ==
    /\ ocr_result.some
    /\ Len(ocr_result.val.pages) = 1
    /\ ocr_result.val.pages[1].content = HeadingPrefix
    /\ extracted_text = HeadingPrefix

\* C3: a result of zero pages gives the fallback literal as the text and is a
\* success: the result is stored and marked as processed, no failure is shown.
C3_EmptyResultIsFallback ==
    (ocr_result.some /\ ocr_result.val.pages = <<>>) =>
        /\ extracted_text = NoTextLiteral
        /\ processing_done
        /\ event = "extracted" =>
               messages \cap {"error_zerox", "warning_failed", "error_unexpected_type",
                              "error_overall"} = {}

C3_Witness ==
    /\ event = "extracted"
    /\ ocr_result.some
    /\ ocr_result.val.pages = <<>>
    /\ displayed
    /\ "success" \in messages

\* st is name without its last extension, or name when it has none
is_stem_of(st, name) ==
    LET has_extension(base, ext) ==
            /\ name = base \o <<".">> \o ext
            /\ base # <<>>
            /\ ext # <<>>
            /\ "." \notin Range(ext)
        cuts == {k \in 1..Len(name) :
                    has_extension(SubSeq(name, 1, k - 1), SubSeq(name, k + 1, Len(name)))}
    IN  IF cuts = {} THEN st = name
        ELSE \E k \in cuts : st = SubSeq(name, 1, k - 1)

\* C4 as stated: the download is named stem + "_extracted.md" with the Markdown
\* type for a PDF, and stem + "_extracted.txt" with the plain-text type for an
\* image.
C4_NameAndTypeBySourceKind ==
    (download_button.some /\ uploaded_file.some) =>
        \E st \in {SubSeq(uploaded_file.val.name, 1, k) :
                      k \in 0..Len(uploaded_file.val.name)} :
            /\ is_stem_of(st, uploaded_file.val.name)
            /\ IF is_pdf(uploaded_file)
               THEN /\ download_button.val.file_name = st \o ExtractedMd
                    /\ download_button.val.mime = "text/markdown"
               ELSE /\ download_button.val.file_name = st \o ExtractedTxt
                    /\ download_button.val.mime = "text/plain"

\* C4 amended: whatever the source kind, the download is named
\* stem + "_extracted.md" with the Markdown type, the stem being that of the
\* uploaded file's name (of the result's file name once no file is uploaded).
C4_AlwaysMarkdownName ==
    download_button.some =>
        LET name == IF uploaded_file.some THEN uploaded_file.val.name
                    ELSE ocr_result.val.file_name
        IN  /\ \E st \in {SubSeq(name, 1, k) : k \in 0..Len(name)} :
                   /\ is_stem_of(st, name)
                   /\ download_button.val.file_name = st \o ExtractedMd
            /\ download_button.val.mime = "text/markdown"
            /\ download_button.val.data = extracted_text

\* an image with two dots in its name
C4_Witness ==
    /\ download_button.some
    /\ uploaded_file.some
    /\ ~is_pdf(uploaded_file)
    /\ uploaded_file.val.name = <<"a", ".", "b", ".", "p">>
    /\ download_button.val.file_name = <<"a", ".", "b">> \o ExtractedMd

\* no comma-separated piece of text is, once trimmed, a run of decimal digits
no_valid_page_number(text) ==
    \A i \in 1..Len(split(text)) :
        LET p == strip(split(text)[i])
        IN  p = <<>> \/ \E k \in 1..Len(p) : p[k] \notin DecimalDigits

\* C5: started with a non-empty page text that holds no valid page number, the
\* extraction goes on: a warning is shown and the provider is called with no
\* page selection.
C5_InvalidSelectionFallsBack ==
    (/\ event = "start"
     /\ specific_chosen(uploaded_file, page_option_radio)
     /\ page_input_text # <<>>
     /\ no_valid_page_number(page_input_text)) =>
        /\ pc = "running"
        /\ calls = 1
        /\ s_pages = None
        /\ "warning_all_pages" \in messages

C5_Witness ==
    /\ event = "start"
    /\ pc = "running"
    /\ page_input_text = <<"a", ",", "b", ",">>
    /\ s_pages = None
    /\ messages = {"warning_no_valid_pages", "warning_all_pages"}

page_selection_messages ==
    {"warning_no_valid_pages", "error_digits_and_commas", "warning_all_pages"}

\* C6 as stated: with the page text absent or empty the selection is absent
\* and no warning is shown, also when started with "specific pages" chosen.
C6_EmptyTextNoWarning ==
    page_input_text = <<>> =>
        /\ select_pages(uploaded_file, page_option_radio, page_input_text) = None
        /\ pc = "running" => s_pages = None
        /\ messages \cap page_selection_messages = {}

\* C6 amended: with the page text absent or empty the selection is absent and
\* the page field shows no warning; a start then calls the provider with no
\* selection, and shows the "all pages" warning exactly when "specific pages"
\* is chosen.
C6_EmptyTextWarnsOnlyAtStart ==
    page_input_text = <<>> =>
        /\ select_pages(uploaded_file, page_option_radio, page_input_text) = None
        /\ messages \cap {"warning_no_valid_pages", "error_digits_and_commas"} = {}
        /\ pc = "running" =>
               /\ s_pages = None
               /\ "warning_all_pages" \in messages
                    <=> specific_chosen(uploaded_file, page_option_radio)
        /\ pc = "idle" /\ event \notin {"extracted", "failed"} =>
               "warning_all_pages" \notin messages

C6_Witness ==
    /\ pc = "running"
    /\ specific_chosen(uploaded_file, page_option_radio)
    /\ page_input_text = <<>>
    /\ s_pages = None
    /\ messages = {"warning_all_pages"}

\* C7: a page selection passed to the provider holds positive integers only.
C7_SelectionIsPositive ==
    (pc = "running" /\ s_pages.some) =>
        \A i \in 1..Len(s_pages.val) : s_pages.val[i] > 0

\* C8: while the provider is awaited the previous result is already cleared
\* and the provider has been called once; after a failed call the session
\* holds no result and the run has ended without another call.
C8_FailureLeavesNothing ==
    /\ pc = "running" => cleared /\ calls = 1
    /\ event = "failed" => cleared /\ pc = "idle" /\ calls = 1

\* a failure after a start made while a result was displayed
C8_Witness ==
    /\ event = "failed"
    /\ had_result
    /\ cleared
    /\ "error_zerox" \in messages

\* C9: a copy that fails leaves the session fields as they were and the result
\* displayed; a copy that succeeds leaves them cleared; and a displayed result
\* is discarded by a successful copy or a new start only.
C9_ClearOnlyAfterCopy ==
    [][/\ event' = "copy_failed" => UNCHANGED session /\ displayed'
       /\ event' = "copied" => cleared'
       /\ (displayed /\ ~displayed') => event' \in {"copied", "start"}]_vars

C9_Witness ==
    /\ event = "copy_failed"
    /\ displayed
    /\ ocr_result.some
    /\ "error_clipboard" \in messages

\* C10: the processed flag is set exactly when a result is stored, and the
\* text is non-empty only when the flag is set.
C10_SessionConsistent ==
    /\ processing_done <=> ocr_result.some
    /\ extracted_text # <<>> => processing_done

\* a stored, processed result whose text is empty
C10_Witness ==
    /\ processing_done
    /\ ocr_result.some
    /\ extracted_text = <<>>
    /\ event = "extracted"

====
